---- MODULE Spec2Model ----
(***************************************************************************)
(* A model of the YaMDb API (api_yamdb): the permission classes, the       *)
(* review/comment write path and the sign-up / token flow, over a store    *)
(* with the constraints the models declare.  A request is handled by a     *)
(* handler that makes one store round trip per step, so that the steps of  *)
(* two requests interleave exactly where two DRF workers can interleave.   *)
(***************************************************************************)
EXTENDS Integers, Sequences, FiniteSets, TLC

(* ------------------------------ bounds --------------------------------- *)
\* Requests the site accepts in one run.
MaxRequests == 2

\* The request handlers (workers) that may run at the same time.
Handlers == {"h1", "h2"}

\* Values a client may send.
Scores == {0, 8, 9, 11}
Texts == {"good", "bad"}
Slugs == {"film", "book"}

(* ------------------------------ state ---------------------------------- *)
VARIABLES
    users,          \* User rows
    categories,     \* Category rows (by slug)
    genres,         \* Genre rows (by slug)
    titles,         \* Title rows
    reviews,        \* Review rows
    comments,       \* Comment rows
    nextTitleId, nextReviewId, nextCommentId,   \* auto-increment counters
    nextUserId,
    mailbox,        \* the confirmation mails sent: (recipient, code)
    tokens,         \* ids of the users that hold an access token
    served,         \* requests accepted so far
    pc,             \* per handler: where it is in its request
    req,            \* per handler: the request it handles
    inst,           \* per handler: the model instance it holds in memory
    outcome,        \* per handler: the response of its last finished request
    checks,         \* per handler: the checks its request evaluated, in order
    hist            \* per handler: what the store held when its request arrived

content == <<categories, genres, titles, reviews, comments,
             nextTitleId, nextReviewId, nextCommentId>>
accounts == <<users, nextUserId, mailbox, tokens>>
store == <<content, accounts>>
vars == <<store, served, pc, req, inst, outcome, checks, hist>>

(* --------------------------- reviews/models.py -------------------------- *)
\* django.contrib.auth.models.AnonymousUser, what request.user is without a token.
AnonymousUser ==
    [id |-> 0, username |-> <<>>, email |-> "", role |-> "", is_superuser |-> FALSE,
     confirmation_code |-> "", bio |-> ""]

is_authenticated(user) == user # AnonymousUser

is_admin_by_role_only(user) == user.role = "admin"

is_admin(user) == user.role = "admin" \/ user.is_superuser

is_moderator(user) == user.role = "moderator"

ROLE_CHOICES == {"user", "moderator", "admin"}

unique_review_missing(rows, row) == TRUE

\* Review.Meta.constraints: UniqueConstraint(fields=['title', 'author']).
unique_review(rows, row) ==
    ~ \E r \in rows : r.id # row.id /\ r.title = row.title /\ r.author = row.author

\* Review.Meta.constraints: CheckConstraint(score >= 1 & score <= 10).
valid_score_range(row) == row.score >= 1 /\ row.score <= 10

\* Primary key of Review.
review_pk(rows, row) == ~ \E r \in rows : r.id = row.id

\* Review.title / Review.author foreign keys.
review_fk(row) ==
    /\ \E t \in titles : t.id = row.title
    /\ \E u \in users : u.id = row.author

\* INSERT INTO review: the row is stored iff every constraint of the table holds.
ReviewInsertOk(rows, row) ==
    /\ review_pk(rows, row)
    /\ unique_review(rows, row)
    /\ valid_score_range(row)
    /\ review_fk(row)

\* on_delete=CASCADE from Title to Review to Comment, and from User to both.
ReviewsOfTitles(tids) == {r \in reviews : r.title \in tids}
CommentsOfReviews(rids) == {c \in comments : c.review \in rids}

(* --------------------------- api/permissions.py ------------------------- *)
SAFE_METHODS == {"GET", "HEAD", "OPTIONS"}

check_object_permission_any_user(method, user, obj) ==
    \/ method \in SAFE_METHODS
    \/ is_admin(user)
    \/ is_moderator(user)
    \/ obj.author # 0

\* AuthorPermissionMixin.check_object_permission
check_object_permission(method, user, obj) ==
    \/ method \in SAFE_METHODS
    \/ is_admin(user)
    \/ is_moderator(user)
    \/ obj.author = user.id

\* AdminPermission.has_permission
AdminPermission(user) == is_authenticated(user) /\ is_admin(user)

\* AdminOrReadOnlyPermission.has_permission
AdminOrReadOnlyPermission(method, user) ==
    \/ method \in SAFE_METHODS
    \/ (is_authenticated(user) /\ is_admin(user))

\* ContentManagerPermission.has_permission
ContentManagerPermission(method, user) ==
    \/ method \in SAFE_METHODS
    \/ is_authenticated(user)

\* rest_framework.permissions.IsAuthenticatedOrReadOnly.has_permission
IsAuthenticatedOrReadOnly(method, user) ==
    \/ method \in SAFE_METHODS
    \/ is_authenticated(user)

ContentPermissions_none(method, user) == TRUE

\* permission_classes of ReviewViewSet and CommentViewSet, evaluated in order.
ContentPermissions(method, user) ==
    IsAuthenticatedOrReadOnly(method, user) /\ ContentManagerPermission(method, user)

\* APIView.permission_denied: 401 without credentials, 403 with them.
Denied(user) == IF is_authenticated(user) THEN "FORBIDDEN" ELSE "UNAUTHORIZED"

(* --------------------------- api/serializers.py ------------------------- *)
validate_score_any(value) == TRUE

\* ReviewSerializer.validate_score (the model's Min/MaxValueValidator agree).
validate_score(value) == 1 <= value /\ value <= 10

\* ReviewSerializer field validation: text and score are required unless the
\* update is partial; a score that is sent is validated.
ReviewFieldsValid(data, partial) ==
    /\ partial \/ "text" \in DOMAIN data
    /\ partial \/ "score" \in DOMAIN data
    /\ "score" \in DOMAIN data => validate_score(data.score)

\* ReviewSerializer.validate: the one-review-per-title pre-check, on POST only.
ReviewValidate(method, title_id, user) ==
    ~ (method = "POST" /\ \E r \in reviews : r.title = title_id /\ r.author = user.id)

\* ModelSerializer.update: setattr of every validated field on the instance.
ApplyData(obj, data) ==
    [f \in DOMAIN obj |-> IF f \in DOMAIN data THEN data[f] ELSE obj[f]]

(* ------------------------------ requests -------------------------------- *)
\* A request without a body.
NoData == [f \in {} |-> ""]
NoRequest == [op |-> "none", method |-> "", user |-> AnonymousUser]
NoInstance == [id |-> 0]
NoHist == [had |-> FALSE, existed |-> FALSE, author |-> FALSE, valid |-> FALSE]

\* What arrived with a request: the target was there, its parent was there, the
\* caller is the target's author, the body passes field validation.
Hist(had, existed, author, valid) ==
    [had |-> had, existed |-> existed, author |-> author, valid |-> valid]

\* request.user: no credentials, or a user that holds a token.
Callers == {AnonymousUser} \cup {u \in users : u.id \in tokens}

\* Primary keys a path may name: every key handed out so far and the next one.
TitleIds == 1..nextTitleId
ReviewIds == 1..nextReviewId
CommentIds == 1..nextCommentId

\* Handler h is free and the site still accepts a request.
Ready(h) == pc[h] = "idle" /\ served < MaxRequests

\* Where a handler goes next: its pc, the response, the checks just evaluated
\* and the instance it keeps in memory.
To(p, out, cks, i) == [p |-> p, out |-> out, cks |-> cks, i |-> i]
Done(out, cks) == To("done", out, cks, NoInstance)

\* Of a finished request the handler keeps what was asked by whom, and the
\* body of a sign-up, of a token exchange and of a profile update.
Summary(r) ==
    IF r.op \in {"signup", "token", "me_update"} THEN r
    ELSE [op |-> r.op, method |-> r.method, user |-> r.user]

\* The request r arrives at handler h.
Accept(h, r, hs, to) ==
    /\ Ready(h)
    /\ served' = served + 1
    /\ pc' = [pc EXCEPT ![h] = to.p]
    /\ req' = [req EXCEPT ![h] = IF to.p = "done" THEN Summary(r) ELSE r]
    /\ inst' = [inst EXCEPT ![h] = to.i]
    /\ outcome' = [outcome EXCEPT ![h] = to.out]
    /\ checks' = [checks EXCEPT ![h] = to.cks]
    /\ hist' = [hist EXCEPT ![h] = hs]

\* The request r arrives at handler h, which runs it up to its first store write.
Begin(h, r, hs, to) == Accept(h, r, hs, to) /\ UNCHANGED store

\* Handler h moves on in its request r.
Advance(h, r, to) ==
    /\ pc' = [pc EXCEPT ![h] = to.p]
    /\ req' = [req EXCEPT ![h] = IF to.p = "done" THEN Summary(r) ELSE r]
    /\ inst' = [inst EXCEPT ![h] = to.i]
    /\ outcome' = [outcome EXCEPT ![h] = to.out]
    /\ checks' = [checks EXCEPT ![h] = @ \o to.cks]
    /\ UNCHANGED served

\* Handler h takes the next step of its request.
Step(h, to) == Advance(h, req[h], to) /\ UNCHANGED hist

\* Handler h has sent its response and is free for the next request.
Respond(h) ==
    /\ pc[h] = "done"
    /\ pc' = [pc EXCEPT ![h] = "idle"]
    /\ req' = [req EXCEPT ![h] = NoRequest]
    /\ outcome' = [outcome EXCEPT ![h] = "none"]
    /\ checks' = [checks EXCEPT ![h] = <<>>]
    /\ hist' = [hist EXCEPT ![h] = NoHist]
    /\ inst' = [inst EXCEPT ![h] = NoInstance]
    /\ UNCHANGED <<store, served>>

(* ------------------------ api/views.py: ReviewViewSet ------------------- *)
\* Request bodies for a review: full, and the partial ones.
ReviewData ==
    [text : Texts, score : Scores] \cup [score : Scores] \cup [text : Texts]

ReviewRequest(op, method, user, title_id, pk, data) ==
    [op |-> op, method |-> method, user |-> user, title |-> title_id, pk |-> pk,
     data |-> data]

\* ReviewViewSet.get_queryset + get_object: the review pk under title_id.
ReviewLookup(title_id, pk) == {r \in reviews : r.title = title_id /\ r.id = pk}

AuthorOf(found, user) == \E x \in found : x.author = user.id

\* POST /titles/{title_id}/reviews/: permissions, then serializer.is_valid().
ReviewCreate(h) ==
    /\ Ready(h)
    /\ \E user \in Callers, title_id \in TitleIds, data \in ReviewData :
        LET r == ReviewRequest("review_create", "POST", user, title_id, 0, data)
            hs == Hist(\E x \in reviews : x.title = title_id /\ x.author = user.id,
                       \E t \in titles : t.id = title_id, FALSE,
                       ReviewFieldsValid(data, FALSE))
        IN  Begin(h, r, hs,
                IF ~ ContentPermissions("POST", user)
                THEN Done(Denied(user), <<"class">>)
                ELSE IF ~ ReviewFieldsValid(data, FALSE)
                THEN Done("VALIDATION", <<"class", "fields">>)
                ELSE IF ~ ReviewValidate("POST", title_id, user)
                THEN Done("CONFLICT", <<"class", "fields", "unique">>)
                ELSE To("review_title", "pending", <<"class", "fields", "unique">>,
                        NoInstance))

\* ReviewViewSet.perform_create: get_object_or_404(Title, id=title_id).
ReviewCreateTitle(h) ==
    /\ pc[h] = "review_title"
    /\ UNCHANGED store
    /\ Step(h, IF \E t \in titles : t.id = req[h].title
               THEN To("review_insert", "pending", <<"title">>, NoInstance)
               ELSE Done("NOT_FOUND", <<"title">>))

\* ReviewViewSet.perform_create: serializer.save(author=request.user, title=title),
\* an INSERT that the table's constraints may refuse (IntegrityError, a 500).
ReviewCreateInsert(h) ==
    /\ pc[h] = "review_insert"
    /\ LET row == [id |-> nextReviewId, title |-> req[h].title,
                   author |-> req[h].user.id, score |-> req[h].data.score,
                   text |-> req[h].data.text]
       IN  IF ReviewInsertOk(reviews, row)
           THEN /\ reviews' = reviews \cup {row}
                /\ nextReviewId' = nextReviewId + 1
                /\ Step(h, Done("OK", <<"insert">>))
           ELSE /\ UNCHANGED <<reviews, nextReviewId>>
                /\ Step(h, Done("SERVER_ERROR", <<"insert">>))
    /\ UNCHANGED <<categories, genres, titles, comments, nextTitleId, nextCommentId,
                   accounts>>

\* UPDATE review SET ... WHERE id = pk: the constraints are checked on the new row.
ReviewUpdateOk(rows, row) ==
    /\ unique_review(rows, row)
    /\ valid_score_range(row)
    /\ review_fk(row)

ReviewWrite_validate_first(h) ==
    /\ Ready(h)
    /\ \E method \in {"PATCH", "DELETE"}, user \in Callers, title_id \in TitleIds,
       pk \in ReviewIds, data \in ReviewData \cup {NoData} :
        LET op == IF method = "PATCH" THEN "review_update" ELSE "review_destroy"
            r == ReviewRequest(op, method, user, title_id, pk, data)
            found == ReviewLookup(title_id, pk)
            obj == CHOOSE x \in found : TRUE
            hs == Hist(found # {}, \E t \in titles : t.id = title_id,
                       AuthorOf(found, user), ReviewFieldsValid(data, TRUE))
        IN  /\ (method = "DELETE") = (data = NoData)
            /\ Begin(h, r, hs,
                IF ~ ContentPermissions(method, user)
                THEN Done(Denied(user), <<"class">>)
                ELSE IF found = {}
                THEN Done("NOT_FOUND", <<"class", "exists">>)
                ELSE IF method = "PATCH" /\ ~ ReviewFieldsValid(data, TRUE)
                THEN Done("VALIDATION", <<"class", "exists", "fields">>)
                ELSE IF ~ check_object_permission(method, user, obj)
                THEN Done("FORBIDDEN", <<"class", "exists", "fields", "object">>)
                ELSE IF method = "DELETE"
                THEN To("review_delete", "pending", <<"class", "exists", "object">>, obj)
                ELSE To("review_save", "pending",
                        <<"class", "exists", "fields", "object">>, ApplyData(obj, data)))

\* PATCH and DELETE /titles/{title_id}/reviews/{pk}/: permissions, get_object()
\* (the lookup, then the object permissions) and, for PATCH, the partial
\* serializer's validation.
ReviewWrite(h) ==
    /\ Ready(h)
    /\ \E method \in {"PATCH", "DELETE"}, user \in Callers, title_id \in TitleIds,
       pk \in ReviewIds, data \in ReviewData \cup {NoData} :
        LET op == IF method = "PATCH" THEN "review_update" ELSE "review_destroy"
            r == ReviewRequest(op, method, user, title_id, pk, data)
            found == ReviewLookup(title_id, pk)
            obj == CHOOSE x \in found : TRUE
            hs == Hist(found # {}, \E t \in titles : t.id = title_id,
                       AuthorOf(found, user), ReviewFieldsValid(data, TRUE))
        IN  /\ (method = "DELETE") = (data = NoData)
            /\ Begin(h, r, hs,
                IF ~ ContentPermissions(method, user)
                THEN Done(Denied(user), <<"class">>)
                ELSE IF found = {}
                THEN Done("NOT_FOUND", <<"class", "exists">>)
                ELSE IF ~ check_object_permission(method, user, obj)
                THEN Done("FORBIDDEN", <<"class", "exists", "object">>)
                ELSE IF method = "DELETE"
                THEN To("review_delete", "pending", <<"class", "exists", "object">>, obj)
                ELSE IF ~ ReviewFieldsValid(data, TRUE)
                THEN Done("VALIDATION", <<"class", "exists", "object", "fields">>)
                ELSE To("review_save", "pending",
                        <<"class", "exists", "object", "fields">>, ApplyData(obj, data)))

\* UpdateModelMixin.perform_update: serializer.save() -> Model.save(): an UPDATE of
\* every column by primary key and, when no row has that key any more, an INSERT.
ReviewUpdateSave(h) ==
    /\ pc[h] = "review_save"
    /\ LET row == inst[h]
           old == {x \in reviews : x.id = row.id}
           ok == IF old # {} THEN ReviewUpdateOk(reviews, row)
                 ELSE ReviewInsertOk(reviews, row)
       IN  IF ok
           THEN reviews' = (reviews \ old) \cup {row} /\ Step(h, Done("OK", <<"save">>))
           ELSE UNCHANGED reviews /\ Step(h, Done("SERVER_ERROR", <<"save">>))
    /\ UNCHANGED <<categories, genres, titles, comments,
                   nextTitleId, nextReviewId, nextCommentId, accounts>>

\* DestroyModelMixin.perform_destroy: instance.delete(), cascading to its comments.
ReviewDestroyDelete(h) ==
    /\ pc[h] = "review_delete"
    /\ reviews' = {x \in reviews : x.id # inst[h].id}
    /\ comments' = comments \ CommentsOfReviews({inst[h].id})
    /\ Step(h, Done("OK", <<"delete">>))
    /\ UNCHANGED <<categories, genres, titles,
                   nextTitleId, nextReviewId, nextCommentId, accounts>>

\* GET /titles/{title_id}/reviews/ (pk = 0) and /titles/{title_id}/reviews/{pk}/.
ReviewRead(h) ==
    /\ Ready(h)
    /\ \E user \in Callers, title_id \in TitleIds, pk \in {0} \cup ReviewIds :
        LET r == ReviewRequest("review_read", "GET", user, title_id, pk, NoData)
            found == ReviewLookup(title_id, pk)
            hs == Hist(found # {}, \E t \in titles : t.id = title_id,
                       AuthorOf(found, user), TRUE)
        IN  Begin(h, r, hs,
                IF ~ ContentPermissions("GET", user)
                THEN Done(Denied(user), <<"class">>)
                ELSE IF pk = 0
                THEN Done("OK", <<"class">>)
                ELSE IF found = {}
                THEN Done("NOT_FOUND", <<"class", "exists">>)
                ELSE IF ~ check_object_permission("GET", user, CHOOSE x \in found : TRUE)
                THEN Done("FORBIDDEN", <<"class", "exists", "object">>)
                ELSE Done("OK", <<"class", "exists", "object">>))

(* ------------------------ api/views.py: CommentViewSet ------------------ *)
CommentData == [text : Texts] \cup {NoData}

\* CommentSerializer field validation: text is required unless partial.
CommentFieldsValid(data, partial) == partial \/ "text" \in DOMAIN data

\* Comment.review / Comment.author foreign keys.
comment_fk(row) ==
    /\ \E r \in reviews : r.id = row.review
    /\ \E u \in users : u.id = row.author

\* CommentViewSet.get_queryset + get_object: the comment pk under review_id
\* (the title_id of the path is not part of the filter).
CommentLookup(review_id, pk) == {c \in comments : c.review = review_id /\ c.id = pk}

CommentRequest(op, method, user, title_id, review_id, pk, data) ==
    [op |-> op, method |-> method, user |-> user, title |-> title_id,
     review |-> review_id, pk |-> pk, data |-> data]

\* POST /titles/{title_id}/reviews/{review_id}/comments/: permissions,
\* serializer.is_valid(), then perform_create's get_object_or_404(Review).
CommentCreate(h) ==
    /\ Ready(h)
    /\ \E user \in Callers, title_id \in TitleIds, review_id \in ReviewIds, data \in CommentData :
        LET r == CommentRequest("comment_create", "POST", user, title_id, review_id, 0, data)
            there == \E x \in reviews : x.id = review_id
            hs == Hist(FALSE, there, FALSE, CommentFieldsValid(data, FALSE))
        IN  Begin(h, r, hs,
                IF ~ ContentPermissions("POST", user)
                THEN Done(Denied(user), <<"class">>)
                ELSE IF ~ CommentFieldsValid(data, FALSE)
                THEN Done("VALIDATION", <<"class", "fields">>)
                ELSE IF ~ there
                THEN Done("NOT_FOUND", <<"class", "fields", "review">>)
                ELSE To("comment_insert", "pending", <<"class", "fields", "review">>,
                        NoInstance))

\* CommentViewSet.perform_create: serializer.save(author=request.user, review=review).
CommentCreateInsert(h) ==
    /\ pc[h] = "comment_insert"
    /\ LET row == [id |-> nextCommentId, review |-> req[h].review,
                   author |-> req[h].user.id, text |-> req[h].data.text]
       IN  IF comment_fk(row)
           THEN /\ comments' = comments \cup {row}
                /\ nextCommentId' = nextCommentId + 1
                /\ Step(h, Done("OK", <<"insert">>))
           ELSE /\ UNCHANGED <<comments, nextCommentId>>
                /\ Step(h, Done("SERVER_ERROR", <<"insert">>))
    /\ UNCHANGED <<categories, genres, titles, reviews, nextTitleId, nextReviewId,
                   accounts>>

\* PATCH and DELETE /titles/{title_id}/reviews/{review_id}/comments/{pk}/.
CommentWrite(h) ==
    /\ Ready(h)
    /\ \E method \in {"PATCH", "DELETE"}, user \in Callers, title_id \in TitleIds,
       review_id \in ReviewIds, pk \in CommentIds, data \in CommentData :
        LET op == IF method = "PATCH" THEN "comment_update" ELSE "comment_destroy"
            r == CommentRequest(op, method, user, title_id, review_id, pk, data)
            found == CommentLookup(review_id, pk)
            obj == CHOOSE x \in found : TRUE
            hs == Hist(found # {}, \E x \in reviews : x.id = review_id,
                       AuthorOf(found, user), TRUE)
        IN  /\ method = "DELETE" => data = NoData
            /\ Begin(h, r, hs,
                IF ~ ContentPermissions(method, user)
                THEN Done(Denied(user), <<"class">>)
                ELSE IF found = {}
                THEN Done("NOT_FOUND", <<"class", "exists">>)
                ELSE IF ~ check_object_permission(method, user, obj)
                THEN Done("FORBIDDEN", <<"class", "exists", "object">>)
                ELSE IF method = "DELETE"
                THEN To("comment_delete", "pending", <<"class", "exists", "object">>, obj)
                ELSE To("comment_save", "pending",
                        <<"class", "exists", "object", "fields">>, ApplyData(obj, data)))

\* serializer.save() of a comment: UPDATE by primary key, else INSERT.
CommentUpdateSave(h) ==
    /\ pc[h] = "comment_save"
    /\ IF comment_fk(inst[h])
       THEN /\ comments' = {c \in comments : c.id # inst[h].id} \cup {inst[h]}
            /\ Step(h, Done("OK", <<"save">>))
       ELSE /\ UNCHANGED comments
            /\ Step(h, Done("SERVER_ERROR", <<"save">>))
    /\ UNCHANGED <<categories, genres, titles, reviews,
                   nextTitleId, nextReviewId, nextCommentId, accounts>>

\* instance.delete() of a comment.
CommentDestroyDelete(h) ==
    /\ pc[h] = "comment_delete"
    /\ comments' = {c \in comments : c.id # inst[h].id}
    /\ Step(h, Done("OK", <<"delete">>))
    /\ UNCHANGED <<categories, genres, titles, reviews,
                   nextTitleId, nextReviewId, nextCommentId, accounts>>

\* GET of the comment list (pk = 0) and of one comment.
CommentRead(h) ==
    /\ Ready(h)
    /\ \E user \in Callers, title_id \in TitleIds, review_id \in ReviewIds,
       pk \in {0} \cup CommentIds :
        LET r == CommentRequest("comment_read", "GET", user, title_id, review_id, pk, NoData)
            found == CommentLookup(review_id, pk)
            hs == Hist(found # {}, \E x \in reviews : x.id = review_id,
                       AuthorOf(found, user), TRUE)
        IN  Begin(h, r, hs,
                IF ~ ContentPermissions("GET", user)
                THEN Done(Denied(user), <<"class">>)
                ELSE IF pk = 0
                THEN Done("OK", <<"class">>)
                ELSE IF found = {}
                THEN Done("NOT_FOUND", <<"class", "exists">>)
                ELSE IF ~ check_object_permission("GET", user, CHOOSE x \in found : TRUE)
                THEN Done("FORBIDDEN", <<"class", "exists", "object">>)
                ELSE Done("OK", <<"class", "exists", "object">>))

(* ------------------ api/views.py: CategoryViewSet, GenreViewSet --------- *)
\* Both view sets are ListModelMixin + CreateModelMixin + DestroyModelMixin with
\* lookup_field = 'slug' and permission_classes = [AdminOrReadOnlyPermission].
\* kind is "category" or "genre"; a row is its slug (the unique column).
SlugRows(kind) == IF kind = "category" THEN categories ELSE genres

SlugRequest(op, method, kind, user, slug) ==
    [op |-> op, method |-> method, kind |-> kind, user |-> user, slug |-> slug]

\* The actions the router binds: list and create on the collection, destroy on
\* the instance; any other method is answered 405 after the permission check.
SlugBound == {"list", "create", "destroy"}
SlugMethods == {<<"GET", "list">>, <<"POST", "create">>, <<"DELETE", "destroy">>,
                <<"GET", "retrieve">>, <<"PATCH", "partial_update">>}

\* Any request to /categories/ or /genres/ up to its first store write.
SlugDispatch(h) ==
    /\ Ready(h)
    /\ \E kind \in {"category", "genre"}, ma \in SlugMethods, user \in Callers, slug \in Slugs :
        LET method == ma[1]
            action == ma[2]
            r == SlugRequest(kind \o "_" \o action, method, kind, user, slug)
            there == slug \in SlugRows(kind)
            hs == Hist(there, TRUE, FALSE, ~ there)
        IN  Begin(h, r, hs,
                IF ~ AdminOrReadOnlyPermission(method, user)
                THEN Done(Denied(user), <<"class">>)
                ELSE IF action \notin SlugBound
                THEN Done("METHOD_NOT_ALLOWED", <<"class">>)
                ELSE IF action = "list"
                THEN Done("OK", <<"class">>)
                ELSE IF action = "create"
                THEN IF there
                     THEN Done("VALIDATION", <<"class", "fields">>)
                     ELSE To("slug_insert", "pending", <<"class", "fields">>, NoInstance)
                ELSE IF ~ there
                     THEN Done("NOT_FOUND", <<"class", "exists">>)
                     ELSE To("slug_delete", "pending", <<"class", "exists">>, NoInstance))

\* perform_create: INSERT, refused by the unique slug (IntegrityError).
SlugInsert(h) ==
    /\ pc[h] = "slug_insert"
    /\ IF req[h].slug \in SlugRows(req[h].kind)
       THEN /\ UNCHANGED <<categories, genres>>
            /\ Step(h, Done("SERVER_ERROR", <<"insert">>))
       ELSE /\ categories' = IF req[h].kind = "category"
                             THEN categories \cup {req[h].slug} ELSE categories
            /\ genres' = IF req[h].kind = "genre" THEN genres \cup {req[h].slug} ELSE genres
            /\ Step(h, Done("OK", <<"insert">>))
    /\ UNCHANGED <<titles, reviews, comments, nextTitleId, nextReviewId, nextCommentId,
                   accounts>>

\* perform_destroy: instance.delete(); Title.category is on_delete=SET_NULL.
SlugDelete(h) ==
    /\ pc[h] = "slug_delete"
    /\ categories' = IF req[h].kind = "category"
                     THEN categories \ {req[h].slug} ELSE categories
    /\ genres' = IF req[h].kind = "genre" THEN genres \ {req[h].slug} ELSE genres
    /\ titles' = IF req[h].kind = "category"
                 THEN {[t EXCEPT !.category = IF @ = req[h].slug THEN "" ELSE @] : t \in titles}
                 ELSE titles
    /\ Step(h, Done("OK", <<"delete">>))
    /\ UNCHANGED <<reviews, comments, nextTitleId, nextReviewId, nextCommentId, accounts>>

(* ------------------------ api/views.py: TitleViewSet -------------------- *)
\* A Title row is its id and its category (a slug, or "" for NULL); the name,
\* year, description and genre rows play no part in a permission or in a review.
TitleData == [category : Slugs] \cup {NoData}

\* TitleCreateSerializer: category is a required SlugRelatedField over Category.
TitleFieldsValid(data, partial) ==
    /\ partial \/ "category" \in DOMAIN data
    /\ "category" \in DOMAIN data => data.category \in categories

\* Title.category foreign key (nullable).
title_fk(row) == row.category = "" \/ row.category \in categories

\* An optional value (int | None): None is the empty tuple, a value v is <<v>>.
None == <<>>

\* Python 3 round() of the quotient num / den (den > 0): the nearest integer,
\* a tie going to the even neighbour.
round(num, den) ==
    LET q == num \div den
        r == num % den
    IN  IF 2 * r < den THEN q
        ELSE IF 2 * r > den THEN q + 1
        ELSE IF q % 2 = 0 THEN q ELSE q + 1

RECURSIVE sum(_)
sum(rows) ==
    IF rows = {} THEN 0
    ELSE LET x == CHOOSE y \in rows : TRUE IN x.score + sum(rows \ {x})

\* Title.objects.with_rating(): the row annotated with rating_avg, the average
\* of the scores of its reviews as the fraction <<sum, count>>, NULL without
\* reviews.
with_rating(row) ==
    LET rs == ReviewsOfTitles({row.id})
    IN  [id |-> row.id, category |-> row.category,
         rating_avg |-> IF rs = {} THEN None ELSE <<sum(rs), Cardinality(rs)>>]

\* TitleSerializer.get_rating: round(obj.rating_avg) if obj.rating_avg else None.
get_rating(obj) ==
    IF obj.rating_avg # None /\ obj.rating_avg[1] # 0
    THEN <<round(obj.rating_avg[1], obj.rating_avg[2])>>
    ELSE None

\* TitleSerializer: the representation of a title in a response.
TitleSerializer(obj) ==
    [id |-> obj.id, category |-> obj.category, rating |-> get_rating(obj)]

TitleRequest(op, method, user, pk, data) ==
    [op |-> op, method |-> method, user |-> user, pk |-> pk, data |-> data]

TitleMethods == {<<"GET", "list">>, <<"GET", "retrieve">>, <<"POST", "create">>,
                 <<"PATCH", "partial_update">>, <<"DELETE", "destroy">>}

\* Any request to /titles/ up to its first store write.
TitleDispatch(h) ==
    /\ Ready(h)
    /\ \E ma \in TitleMethods, user \in Callers, pk \in {0} \cup TitleIds, data \in TitleData :
        LET method == ma[1]
            action == ma[2]
            r == TitleRequest("title_" \o action, method, user, pk, data)
            found == {t \in titles : t.id = pk}
            obj == CHOOSE t \in found : TRUE
            partial == method = "PATCH"
            hs == Hist(found # {}, TRUE, FALSE, TitleFieldsValid(data, partial))
        IN  /\ (action \in {"list", "create"}) = (pk = 0)
            /\ method \notin {"POST", "PATCH"} => data = NoData
            /\ Begin(h, r, hs,
                IF ~ AdminOrReadOnlyPermission(method, user)
                THEN Done(Denied(user), <<"class">>)
                ELSE IF action = "list"
                THEN Done("OK", <<"class">>)
                ELSE IF action = "create"
                THEN IF ~ TitleFieldsValid(data, FALSE)
                     THEN Done("VALIDATION", <<"class", "fields">>)
                     ELSE To("title_insert", "pending", <<"class", "fields">>, NoInstance)
                ELSE IF found = {}
                THEN Done("NOT_FOUND", <<"class", "exists">>)
                ELSE IF action = "retrieve"
                THEN To("done", "OK", <<"class", "exists">>,
                        TitleSerializer(with_rating(obj)))
                ELSE IF action = "destroy"
                THEN To("title_delete", "pending", <<"class", "exists">>, obj)
                ELSE IF ~ TitleFieldsValid(data, TRUE)
                THEN Done("VALIDATION", <<"class", "exists", "fields">>)
                ELSE To("title_save", "pending", <<"class", "exists", "fields">>,
                        ApplyData(obj, data)))

\* perform_create: INSERT of the title.
TitleInsert(h) ==
    /\ pc[h] = "title_insert"
    /\ LET row == [id |-> nextTitleId, category |-> req[h].data.category]
       IN  IF title_fk(row)
           THEN /\ titles' = titles \cup {row}
                /\ nextTitleId' = nextTitleId + 1
                /\ Step(h, Done("OK", <<"insert">>))
           ELSE /\ UNCHANGED <<titles, nextTitleId>>
                /\ Step(h, Done("SERVER_ERROR", <<"insert">>))
    /\ UNCHANGED <<categories, genres, reviews, comments, nextReviewId, nextCommentId,
                   accounts>>

\* perform_update: Model.save(), an UPDATE by primary key, else an INSERT.
TitleSave(h) ==
    /\ pc[h] = "title_save"
    /\ IF title_fk(inst[h])
       THEN /\ titles' = {t \in titles : t.id # inst[h].id} \cup {inst[h]}
            /\ Step(h, Done("OK", <<"save">>))
       ELSE /\ UNCHANGED titles
            /\ Step(h, Done("SERVER_ERROR", <<"save">>))
    /\ UNCHANGED <<categories, genres, reviews, comments,
                   nextTitleId, nextReviewId, nextCommentId, accounts>>

\* perform_destroy: instance.delete(), cascading to its reviews and their comments.
TitleDelete(h) ==
    /\ pc[h] = "title_delete"
    /\ titles' = {t \in titles : t.id # inst[h].id}
    /\ reviews' = reviews \ ReviewsOfTitles({inst[h].id})
    /\ comments' = comments \ CommentsOfReviews({r.id : r \in ReviewsOfTitles({inst[h].id})})
    /\ Step(h, Done("OK", <<"delete">>))
    /\ UNCHANGED <<categories, genres, nextTitleId, nextReviewId, nextCommentId, accounts>>

(* ------------------------- accounts: the user table --------------------- *)
\* A username is the sequence of its characters.
admin == <<"a", "d", "m", "i", "n">>
mod == <<"m", "o", "d">>
alice == <<"a", "l", "i", "c", "e">>
bob == <<"b", "o", "b">>
root == <<"r", "o", "o", "t">>
carol == <<"c", "a", "r", "o", "l">>
dave == <<"d", "a", "v", "e">>

\* Usernames a client may send: an account, two free names, the reserved name
\* in two spellings, and a name with a character outside the pattern.
Usernames == {alice, carol, dave, <<"m", "e">>, <<"M", "e">>, <<"a", "!">>}
\* Usernames a path /users/{username}/ may name.
PathUsernames == {alice, carol}
Emails == {"alice@x", "carol@x"}
\* Values secrets.token_hex may return.
Codes == {"c1", "c2"}
Bios == {"hi"}

\* A row of the user table.
User(id, username, email, role, is_superuser, confirmation_code) ==
    [id |-> id, username |-> username, email |-> email, role |-> role,
     is_superuser |-> is_superuser, confirmation_code |-> confirmation_code,
     bio |-> ""]

\* AbstractUser.username: unique=True.
username_unique(rows, row) ==
    \A u \in rows : u.username = row.username => u.id = row.id

\* Model.save(): UPDATE of every column of the row with this pk, INSERT when
\* there is no such row.
SaveUser(rows, row) == {u \in rows : u.id # row.id} \cup {row}

\* QuerySet.delete() of the accounts with these ids: their reviews and
\* comments, and the comments on their reviews, go with them.
ReviewsOfUsers(ids) == {r \in reviews : r.author \in ids}
CommentsOfUsers(ids) == {c \in comments : c.author \in ids}

(* --------------------- api/serializers.py: accounts --------------------- *)
FORBIDDEN_USERNAME == <<"m", "e">>

\* str.lower()
lower_char(c) ==
    CASE c = "M" -> "m"
      [] c = "E" -> "e"
      [] OTHER -> c
lower_as_is(value) == value

lower(value) == [i \in 1..Len(value) |-> lower_char(value[i])]

\* USERNAME_PATTERN = r'^[\w.@+-]+\Z'
WordChars ==
    {"a", "b", "c", "d", "e", "i", "l", "m", "n", "o", "r", "t", "v", "E", "M", "_"}
USERNAME_PATTERN(value) ==
    /\ Len(value) >= 1
    /\ \A i \in 1..Len(value) : value[i] \in WordChars \cup {".", "@", "+", "-"}

\* validate_username_field: the value is accepted.
validate_username_field(value) ==
    /\ lower(value) # FORBIDDEN_USERNAME
    /\ USERNAME_PATTERN(value)

\* SignUpSerializer.validate, first query: the email belongs to another username.
SignUpEmailTaken(rows, data) ==
    \E u \in rows : u.email = data.email /\ u.username # data.username

\* SignUpSerializer.validate, second query: the username has another email.
SignUpUsernameTaken(rows, data) ==
    \E u \in rows : u.username = data.username /\ u.email # data.email

\* TokenSerializer: the username matches the pattern, the code is not blank.
TokenFieldsValid(data) ==
    /\ USERNAME_PATTERN(data.username)
    /\ data.confirmation_code # ""

\* UserSerializer field validation. id is the pk of the instance under update,
\* 0 on create; a create needs username and email.
UserFieldsValid(rows, data, id, partial) ==
    /\ partial \/ {"username", "email"} \subseteq DOMAIN data
    /\ "username" \in DOMAIN data =>
          /\ validate_username_field(data.username)
          /\ \A u \in rows : u.username = data.username => u.id = id
    /\ "email" \in DOMAIN data =>
          \A u \in rows : u.email = data.email => u.id = id
    /\ "role" \in DOMAIN data => data.role \in ROLE_CHOICES

\* MeSerializer field validation: no validate_email, and role is read only.
MeFieldsValid(rows, data, id) ==
    "username" \in DOMAIN data =>
        /\ validate_username_field(data.username)
        /\ \A u \in rows : u.username = data.username => u.id = id

\* MeSerializer.Meta.read_only_fields: what of the body reaches the instance.
MeWritable(data) == [f \in DOMAIN data \ {"role"} |-> data[f]]

(* ------------------------ api/views.py: accounts ------------------------ *)
\* rest_framework.permissions.IsAuthenticated.has_permission
IsAuthenticated(user) == is_authenticated(user)

UserPermissions_read_open(action, method, user) ==
    IF action = "me" THEN IsAuthenticated(user)
    ELSE method \in SAFE_METHODS \/ AdminPermission(user)

\* UserViewSet.get_permissions
UserPermissions(action, method, user) ==
    IF action = "me" THEN IsAuthenticated(user) ELSE AdminPermission(user)

WithCode_kept(user, code) == user

\* user.confirmation_code = confirmation_code
WithCode(user, code) == [user EXCEPT !.confirmation_code = code]

TokenOutcome_any_code(rows, data) ==
    IF ~ TokenFieldsValid(data) THEN "VALIDATION"
    ELSE IF ~ \E u \in rows : u.username = data.username THEN "NOT_FOUND"
    ELSE "OK"

\* What TokenView.post answers to a body, over the user table rows.
TokenOutcome(rows, data) ==
    IF ~ TokenFieldsValid(data) THEN "VALIDATION"
    ELSE IF ~ \E u \in rows : u.username = data.username THEN "NOT_FOUND"
    ELSE IF \E u \in rows : u.username = data.username
                            /\ u.confirmation_code # data.confirmation_code
         THEN "INVALID_CREDENTIAL"
    ELSE "OK"

\* An account that keeps a sign-up from going through: the username with
\* another email, or the email with another username.
Collides(rows, data) ==
    SignUpEmailTaken(rows, data) \/ SignUpUsernameTaken(rows, data)

SignUpRequest ==
    {[op |-> "signup", method |-> "POST", user |-> AnonymousUser, data |-> d,
      confirmation_code |-> ""] : d \in [username : Usernames, email : Emails]}

\* SignUpView.post up to the first query of SignUpSerializer.validate.
SignUp(h) ==
    /\ Ready(h)
    /\ \E r \in SignUpRequest :
        LET valid == validate_username_field(r.data.username)
            had == \E u \in users : u.username = r.data.username /\ u.email = r.data.email
            to == IF ~ valid THEN Done("VALIDATION", <<"fields">>)
                  ELSE IF SignUpEmailTaken(users, r.data)
                       THEN Done("CONFLICT", <<"fields", "email">>)
                  ELSE To("signup_username", "pending", <<"fields", "email">>, NoInstance)
        IN  Begin(h, r, Hist(had, FALSE, FALSE, valid), to)

\* The second query of SignUpSerializer.validate.
SignUpUsername(h) ==
    /\ pc[h] = "signup_username"
    /\ Step(h, IF SignUpUsernameTaken(users, req[h].data)
               THEN Done("CONFLICT", <<"username">>)
               ELSE To("signup_get", "pending", <<"username">>, NoInstance))
    /\ UNCHANGED store

\* secrets.token_hex, User.objects.get_or_create and the check of its result.
SignUpGetOrCreate(h) ==
    /\ pc[h] = "signup_get"
    /\ \E confirmation_code \in Codes :
        LET data == req[h].data
            found == {u \in users : u.username = data.username}
            created == found = {}
            user == IF created
                    THEN User(nextUserId, data.username, data.email, "user", FALSE, "")
                    ELSE CHOOSE u \in found : TRUE
        IN  /\ users' = users \cup {user}
            /\ nextUserId' = IF created THEN nextUserId + 1 ELSE nextUserId
            /\ Advance(h, [req[h] EXCEPT !.confirmation_code = confirmation_code],
                       IF ~ created /\ user.email # data.email
                       THEN Done("CONFLICT", <<"get_or_create">>)
                       ELSE To("signup_save", "pending", <<"get_or_create">>,
                               WithCode(user, confirmation_code)))
    /\ UNCHANGED <<content, mailbox, tokens, hist>>

\* user.save() and send_mail.
SignUpSave(h) ==
    /\ pc[h] = "signup_save"
    /\ IF username_unique(users, inst[h])
       THEN /\ users' = SaveUser(users, inst[h])
            /\ mailbox' = mailbox \cup {<<req[h].data.email, req[h].confirmation_code>>}
            /\ Step(h, To("done", "OK", <<"save", "mail">>, inst[h]))
       ELSE /\ UNCHANGED <<users, mailbox>>
            /\ Step(h, Done("SERVER_ERROR", <<"save">>))
    /\ UNCHANGED <<content, nextUserId, tokens>>

TokenRequest ==
    {[op |-> "token", method |-> "POST", user |-> AnonymousUser, data |-> d] :
        d \in [username : Usernames \cup {mod}, confirmation_code : Codes \cup {""}]}

Token_one_time(h) ==
    /\ Ready(h)
    /\ \E r \in TokenRequest :
        LET out == TokenOutcome(users, r.data)
            had == \E u \in users : u.username = r.data.username
            user == CHOOSE u \in users : u.username = r.data.username
        IN  /\ Accept(h, r, Hist(had, FALSE, FALSE, TokenFieldsValid(r.data)),
                      To("done", out, <<"fields">>,
                         IF out = "OK" THEN [id |-> user.id] ELSE NoInstance))
            /\ tokens' = IF out = "OK" THEN tokens \cup {user.id} ELSE tokens
            /\ users' = IF out = "OK" THEN SaveUser(users, WithCode(user, "")) ELSE users
    /\ UNCHANGED <<content, nextUserId, mailbox>>

\* TokenView.post: the token in the response carries the id of the user found.
Token(h) ==
    /\ Ready(h)
    /\ \E r \in TokenRequest :
        LET out == TokenOutcome(users, r.data)
            had == \E u \in users : u.username = r.data.username
            user == CHOOSE u \in users : u.username = r.data.username
        IN  /\ Accept(h, r, Hist(had, FALSE, FALSE, TokenFieldsValid(r.data)),
                      To("done", out, <<"fields">>,
                         IF out = "OK" THEN [id |-> user.id] ELSE NoInstance))
            /\ tokens' = IF out = "OK" THEN tokens \cup {user.id} ELSE tokens
    /\ UNCHANGED <<content, users, nextUserId, mailbox>>

\* Bodies of POST /users/ and of PATCH /users/{username}/, /users/me/.
UserCreateData ==
    [username : {alice, carol, <<"M", "e">>}, email : {"carol@x"}]
    \cup [username : {carol}, email : Emails, role : {"admin", "owner"}]
UserPatchData ==
    [role : {"admin", "user", "owner"}] \cup [bio : Bios]
    \cup [role : {"admin"}, bio : Bios]
    \cup [email : Emails] \cup [username : {carol, <<"M", "e">>}]

UserReadRequest ==
    {[op |-> "users_list", method |-> "GET", user |-> u, username |-> <<>>] :
        u \in Callers}
    \cup {[op |-> "users_retrieve", method |-> "GET", user |-> u, username |-> n] :
        u \in Callers, n \in PathUsernames}

\* UserViewSet list and retrieve.
UserRead(h) ==
    /\ Ready(h)
    /\ \E r \in UserReadRequest :
        LET had == \E u \in users : u.username = r.username
            to == IF ~ UserPermissions("read", r.method, r.user)
                  THEN Done(Denied(r.user), <<"class">>)
                  ELSE IF r.op = "users_retrieve" /\ ~ had
                       THEN Done("NOT_FOUND", <<"class", "exists">>)
                  ELSE Done("OK", <<"class", "exists">>)
        IN  Begin(h, r, Hist(had, FALSE, FALSE, TRUE), to)

UserCreateRequest ==
    {[op |-> "users_create", method |-> "POST", user |-> u, data |-> d] :
        u \in Callers, d \in UserCreateData}

\* UserViewSet.create up to serializer.save().
UserCreate(h) ==
    /\ Ready(h)
    /\ \E r \in UserCreateRequest :
        LET valid == UserFieldsValid(users, r.data, 0, FALSE)
            to == IF ~ UserPermissions("create", r.method, r.user)
                  THEN Done(Denied(r.user), <<"class">>)
                  ELSE IF ~ valid THEN Done("VALIDATION", <<"class", "fields">>)
                  ELSE To("users_insert", "pending", <<"class", "fields">>,
                          ApplyData(User(0, <<>>, "", "user", FALSE, ""), r.data))
        IN  Begin(h, r, Hist(FALSE, FALSE, FALSE, valid), to)

\* serializer.save() of a new account: INSERT INTO user.
UserCreateInsert(h) ==
    /\ pc[h] = "users_insert"
    /\ LET row == [inst[h] EXCEPT !.id = nextUserId]
       IN  IF username_unique(users, row)
           THEN /\ users' = users \cup {row}
                /\ nextUserId' = nextUserId + 1
                /\ Step(h, Done("OK", <<"insert">>))
           ELSE /\ UNCHANGED <<users, nextUserId>>
                /\ Step(h, Done("SERVER_ERROR", <<"insert">>))
    /\ UNCHANGED <<content, mailbox, tokens>>

UserWriteRequest ==
    {[op |-> "users_partial_update", method |-> "PATCH", user |-> u, username |-> n,
      data |-> d] : u \in Callers, n \in PathUsernames, d \in UserPatchData}
    \cup {[op |-> "users_destroy", method |-> "DELETE", user |-> u, username |-> n,
           data |-> NoData] : u \in Callers, n \in PathUsernames}

\* UserViewSet.partial_update and destroy up to the write.
UserWrite(h) ==
    /\ Ready(h)
    /\ \E r \in UserWriteRequest :
        LET found == {u \in users : u.username = r.username}
            obj == CHOOSE u \in found : TRUE
            valid == r.method = "DELETE"
                     \/ (found # {} /\ UserFieldsValid(users, r.data, obj.id, TRUE))
            to == IF ~ UserPermissions(r.op, r.method, r.user)
                  THEN Done(Denied(r.user), <<"class">>)
                  ELSE IF found = {} THEN Done("NOT_FOUND", <<"class", "exists">>)
                  ELSE IF r.method = "DELETE"
                       THEN To("users_delete", "pending", <<"class", "exists">>, obj)
                  ELSE IF ~ valid
                       THEN Done("VALIDATION", <<"class", "exists", "fields">>)
                  ELSE To("users_save", "pending", <<"class", "exists", "fields">>,
                          ApplyData(obj, r.data))
        IN  Begin(h, r, Hist(found # {}, FALSE, FALSE, valid), to)

\* serializer.save() of an account under update: instance.save().
UserUpdateSave(h) ==
    /\ pc[h] = "users_save"
    /\ IF username_unique(users, inst[h])
       THEN /\ users' = SaveUser(users, inst[h])
            /\ Step(h, Done("OK", <<"save">>))
       ELSE /\ UNCHANGED users
            /\ Step(h, Done("SERVER_ERROR", <<"save">>))
    /\ UNCHANGED <<content, nextUserId, mailbox, tokens>>

\* instance.delete() of an account.
UserDestroyDelete(h) ==
    /\ pc[h] = "users_delete"
    /\ users' = {u \in users : u.id # inst[h].id}
    /\ reviews' = reviews \ ReviewsOfUsers({inst[h].id})
    /\ comments' = (comments \ CommentsOfUsers({inst[h].id}))
                   \ CommentsOfReviews({r.id : r \in ReviewsOfUsers({inst[h].id})})
    /\ Step(h, Done("OK", <<"delete">>))
    /\ UNCHANGED <<categories, genres, titles, nextTitleId, nextReviewId, nextCommentId,
                   nextUserId, mailbox, tokens>>

MeMethods == [GET |-> "me_retrieve", PATCH |-> "me_update", DELETE |-> "me_destroy"]

MeRequest ==
    {[op |-> MeMethods[m], method |-> m, user |-> u, data |-> NoData] :
        m \in {"GET", "DELETE"}, u \in Callers}
    \cup {[op |-> MeMethods["PATCH"], method |-> "PATCH", user |-> u, data |-> d] :
        u \in Callers, d \in UserPatchData}

\* UserViewSet.me up to serializer.save(); the instance is request.user, as the
\* authentication of the request loaded it.
me(h) ==
    /\ Ready(h)
    /\ \E r \in MeRequest :
        LET valid == r.method # "PATCH" \/ MeFieldsValid(users, r.data, r.user.id)
            to == IF ~ UserPermissions("me", r.method, r.user)
                  THEN Done(Denied(r.user), <<"class">>)
                  ELSE IF r.method = "DELETE"
                       THEN Done("METHOD_NOT_ALLOWED", <<"class">>)
                  ELSE IF r.method = "GET" THEN Done("OK", <<"class">>)
                  ELSE IF ~ valid THEN Done("VALIDATION", <<"class", "fields">>)
                  ELSE To("me_save", "pending", <<"class", "fields">>,
                          ApplyData(r.user, MeWritable(r.data)))
        IN  Begin(h, r, Hist(is_authenticated(r.user), FALSE, FALSE, valid), to)

\* serializer.save() of the caller's own account: instance.save().
MeSave(h) ==
    /\ pc[h] = "me_save"
    /\ IF username_unique(users, inst[h])
       THEN /\ users' = SaveUser(users, inst[h])
            /\ Step(h, Done("OK", <<"save">>))
       ELSE /\ UNCHANGED users
            /\ Step(h, Done("SERVER_ERROR", <<"save">>))
    /\ UNCHANGED <<content, nextUserId, mailbox, tokens>>

(* ------------------------------ the system ------------------------------ *)
\* The accounts of a running site: an admin, a moderator, two plain users and a
\* superuser whose role is still the default.
SiteUsers ==
    {User(1, admin, "admin@x", "admin", FALSE, ""),
     User(2, mod, "mod@x", "moderator", FALSE, ""),
     User(3, alice, "alice@x", "user", FALSE, "c1"),
     User(4, bob, "bob@x", "user", FALSE, "c2"),
     User(5, root, "root@x", "user", TRUE, "")}

HandlersIdle ==
    /\ served = 0
    /\ pc = [h \in Handlers |-> "idle"]
    /\ req = [h \in Handlers |-> NoRequest]
    /\ inst = [h \in Handlers |-> NoInstance]
    /\ outcome = [h \in Handlers |-> "none"]
    /\ checks = [h \in Handlers |-> <<>>]
    /\ hist = [h \in Handlers |-> NoHist]

\* A site in use: one category, one genre, one title, alice's review of it and
\* bob's comment on her review; every account holds a token.
SiteWith(rows, holders) ==
    /\ users = rows
    /\ nextUserId = 6
    /\ mailbox = {}
    /\ tokens = holders
    /\ categories = {"film"}
    /\ genres = {"film"}
    /\ titles = {[id |-> 1, category |-> "film"]}
    /\ reviews = {[id |-> 1, title |-> 1, author |-> 3, score |-> 8, text |-> "good"]}
    /\ comments = {[id |-> 1, review |-> 1, author |-> 4, text |-> "good"]}
    /\ nextTitleId = 2
    /\ nextReviewId = 2
    /\ nextCommentId = 2

Site(holders) == SiteWith(SiteUsers, holders)

Init == Site({u.id : u \in SiteUsers}) /\ HandlersIdle

\* The requests of the catalog, review and comment endpoints, one step each.
Serve(h) ==
    \/ SlugDispatch(h) \/ SlugInsert(h) \/ SlugDelete(h)
    \/ TitleDispatch(h) \/ TitleInsert(h) \/ TitleSave(h) \/ TitleDelete(h)
    \/ ReviewCreate(h) \/ ReviewCreateTitle(h) \/ ReviewCreateInsert(h)
    \/ ReviewWrite(h) \/ ReviewUpdateSave(h) \/ ReviewDestroyDelete(h) \/ ReviewRead(h)
    \/ CommentCreate(h) \/ CommentCreateInsert(h)
    \/ CommentWrite(h) \/ CommentUpdateSave(h) \/ CommentDestroyDelete(h)
    \/ CommentRead(h)
    \/ Respond(h)

\* One worker serves the whole API, a request at a time.
Next == Serve("h1")

Spec == Init /\ [][Next]_vars

\* Two workers serve review writes at the same time; the moderator, alice and
\* bob hold tokens.
ReviewServe(h) ==
    \/ ReviewCreate(h) \/ ReviewCreateTitle(h) \/ ReviewCreateInsert(h)
    \/ ReviewWrite(h) \/ ReviewUpdateSave(h) \/ ReviewDestroyDelete(h)
    \/ Respond(h)

RaceNext == \E h \in Handlers : ReviewServe(h)

RaceInit == Site({2, 3, 4}) /\ HandlersIdle

SpecRace == RaceInit /\ [][RaceNext]_vars

\* The requests of the sign-up, token and user endpoints, one step each.
AuthServe(h) ==
    \/ SignUp(h) \/ SignUpUsername(h) \/ SignUpGetOrCreate(h) \/ SignUpSave(h)
    \/ Token(h)
    \/ UserRead(h) \/ UserCreate(h) \/ UserCreateInsert(h)
    \/ UserWrite(h) \/ UserUpdateSave(h) \/ UserDestroyDelete(h)
    \/ me(h) \/ MeSave(h)
    \/ Respond(h)

\* Two workers serve the account endpoints at the same time; the admin, alice
\* and the superuser hold tokens.
AuthNext == \E h \in Handlers : AuthServe(h)

AuthInit == Site({1, 3, 5}) /\ HandlersIdle

SpecAuth == AuthInit /\ [][AuthNext]_vars

\* The same two workers on a site where alice has been made a moderator.
ModeratorAlice ==
    {IF u.id = 3 THEN [u EXCEPT !.role = "moderator"] ELSE u : u \in SiteUsers}

RolesInit == SiteWith(ModeratorAlice, {1, 3, 5}) /\ HandlersIdle

SpecRoles == RolesInit /\ [][AuthNext]_vars

(* ------------------------------ properties ------------------------------ *)
Has(seq, x) == \E i \in 1..Len(seq) : seq[i] = x
Finished(h, ops) == pc[h] = "done" /\ req[h].op \in ops
Denials == {"UNAUTHORIZED", "FORBIDDEN"}

\* C1: in every reachable state, under any interleaving of create, update and
\* delete review requests of two workers, no two reviews share (title, author).
C1_OneReviewPerTitleAndAuthor ==
    \A r1, r2 \in reviews :
        (r1.title = r2.title /\ r1.author = r2.author) => r1 = r2

\* Two creates of one identity raced past the pre-check: one is stored, the
\* other was refused by the table.
C1_Witness ==
    \E h1, h2 \in Handlers :
        /\ Finished(h1, {"review_create"}) /\ outcome[h1] = "OK"
        /\ Finished(h2, {"review_create"}) /\ outcome[h2] = "SERVER_ERROR"
        /\ req[h1].user = req[h2].user
        /\ \E r \in reviews : r.author = req[h1].user.id

\* C2: a create review with a well-formed body by an identity that already has
\* a review on the title, or whose concurrent create stored one first, fails
\* with CONFLICT.
C2_SecondCreateIsConflict ==
    \A h \in Handlers :
        ( /\ Finished(h, {"review_create"})
          /\ is_authenticated(req[h].user)
          /\ hist[h].valid
          /\ hist[h].had \/ (Has(checks[h], "insert") /\ outcome[h] # "OK") )
        => outcome[h] = "CONFLICT"

ObjectWrites == {"review_update", "review_destroy", "comment_update", "comment_destroy"}
MayManage(h) ==
    \/ req[h].user.role = "admin" \/ req[h].user.is_superuser
    \/ req[h].user.role = "moderator"
    \/ hist[h].author

\* C3: an update or delete of an existing review or comment by an authenticated
\* identity is refused with FORBIDDEN iff the identity is neither admin, nor
\* moderator, nor the author; a refused request leaves the store unchanged and
\* an allowed one goes on to validation and to the write.
C3_ObjectPermission ==
    [][\A h \in Handlers :
        ( /\ pc[h] = "idle" /\ pc'[h] # "idle"
          /\ req'[h].op \in ObjectWrites
          /\ is_authenticated(req'[h].user)
          /\ hist'[h].had )
        => /\ (outcome'[h] = "FORBIDDEN") <=> ~ MayManage(h)'
           /\ outcome'[h] = "FORBIDDEN" => store' = store
           /\ MayManage(h)' =>
                IF hist'[h].valid
                THEN pc'[h] \in {"review_save", "review_delete",
                                 "comment_save", "comment_delete"}
                ELSE outcome'[h] = "VALIDATION"]_vars

\* bob was refused on alice's review, which is as it was.
C3_Witness ==
    \E h \in Handlers :
        /\ Finished(h, {"review_update"}) /\ outcome[h] = "FORBIDDEN"
        /\ req[h].user.role = "user" /\ ~ req[h].user.is_superuser
        /\ hist[h].had /\ ~ hist[h].author

Writes == {"POST", "PATCH", "DELETE"}

\* C4: a write without credentials, on a category, genre, title, review or
\* comment, is refused by the class-level permission alone: no other check is
\* evaluated and the store is unchanged.
C4_AnonymousWriteDenied ==
    [][\A h \in Handlers :
        ( /\ pc[h] = "idle" /\ pc'[h] # "idle"
          /\ req'[h].method \in Writes
          /\ req'[h].user = AnonymousUser )
        => /\ pc'[h] = "done"
           /\ outcome'[h] \in Denials
           /\ checks'[h] = <<"class">>
           /\ store' = store]_vars

\* An anonymous delete of an existing comment was refused.
C4_Witness ==
    \E h \in Handlers :
        /\ Finished(h, {"comment_destroy"}) /\ outcome[h] = "UNAUTHORIZED"
        /\ req[h].user = AnonymousUser /\ hist[h].had /\ checks[h] = <<"class">>

CatalogOps ==
    {k \o "_" \o a : k \in {"category", "genre", "title"},
                     a \in {"list", "retrieve", "create", "partial_update", "destroy"}}

\* C5: on categories, genres and titles a read is never refused, and a write is
\* refused iff the caller is not (authenticated and role admin or superuser); a
\* refused write ends there and leaves the store unchanged.
C5_CatalogAdminOrReadOnly ==
    [][\A h \in Handlers :
        ( /\ pc[h] = "idle" /\ pc'[h] # "idle"
          /\ req'[h].op \in CatalogOps )
        => LET user == req'[h].user
               allowed == user # AnonymousUser /\ (user.role = "admin" \/ user.is_superuser)
               refused == outcome'[h] \in Denials
           IN  /\ refused <=> (req'[h].method \in Writes /\ ~ allowed)
               /\ refused => pc'[h] = "done" /\ store' = store]_vars

\* The superuser with role user created a title; the moderator was refused.
C5_Witness ==
    \E h \in Handlers :
        /\ Finished(h, {"title_create"}) /\ outcome[h] = "OK"
        /\ req[h].user.is_superuser /\ req[h].user.role = "user"

UsersOps ==
    {"users_list", "users_retrieve", "users_create", "users_partial_update",
     "users_destroy"}
MeOps == {"me_retrieve", "me_update", "me_destroy"}

C7_RoleInBodyIgnored ==
    [][\A h \in Handlers :
        /\ ( /\ pc[h] = "idle" /\ pc'[h] # "idle" /\ req'[h].op = "me_update"
             /\ req'[h].user # AnonymousUser
             /\ DOMAIN req'[h].data \subseteq {"role", "bio", "email"}
             /\ "role" \in DOMAIN req'[h].data )
           => pc'[h] = "me_save"
        /\ ( /\ pc[h] = "me_save" /\ pc'[h] = "done" /\ outcome'[h] = "OK"
             /\ "role" \in DOMAIN req[h].data
             /\ req[h].data.role # req[h].user.role )
           => LET id == req[h].user.id
              IN  /\ {u \in users' : u.id # id} = {u \in users : u.id # id}
                  /\ \A u \in users, v \in users' :
                        (u.id = id /\ v.id = id) =>
                            /\ v.role = u.role
                            /\ \A f \in DOMAIN req[h].data \ {"role"} :
                                  v[f] = req[h].data[f]]_vars

TokenIssued(h) == outcome'[h] = "OK"
Matches(rows, data) ==
    {u \in rows : u.username = data.username
                  /\ u.confirmation_code = data.confirmation_code}

C9_SignUpStoresItsCode ==
    [][\A h \in Handlers :
        (pc[h] = "signup_save" /\ pc'[h] = "done" /\ outcome'[h] = "OK")
        => LET name == req[h].data.username
               code == req[h].confirmation_code
               Exchange(c) ==
                   TokenOutcome(users', [username |-> name, confirmation_code |-> c])
           IN  /\ Cardinality({u \in users' : u.username = name}) = 1
               /\ \A u \in users' : u.username = name => u.confirmation_code = code
               /\ \A u \in users, v \in users' :
                     (u.username = name /\ v.username = name) => v.id = u.id
               /\ <<req[h].data.email, code>> \in mailbox'
               /\ Exchange(code) = "OK"
               /\ \A c \in (Codes \cup {""}) \ {code} : Exchange(c) # "OK"]_vars

\* alice signed up again and her stored code, c1 before, is the new one.
C9_Witness ==
    \E h \in Handlers :
        /\ Finished(h, {"signup"}) /\ outcome[h] = "OK" /\ hist[h].had
        /\ \E u \in users : /\ u.id = 3 /\ u.username = alice
                            /\ u.confirmation_code = "c2"
                            /\ <<u.email, "c2">> \in mailbox

\* Accounts created since the site was set up.
Created == {u \in users : u.id \notin {s.id : s \in SiteUsers}}

\* C10: a sign-up fails, creating no account, changing no stored code and
\* sending no mail, when an account has its email with another username or its
\* username with another email, as its validation queries see it or, the
\* account having been created meanwhile, as its get_or_create sees it.
C10_CollisionFails ==
    [][\A h \in Handlers :
        ( /\ req'[h].op = "signup" /\ pc'[h] # pc[h]
          /\ \/ pc[h] = "idle" /\ SignUpEmailTaken(users, req'[h].data)
             \/ pc[h] = "signup_username" /\ SignUpUsernameTaken(users, req'[h].data)
             \/ pc[h] = "signup_get" /\ Collides(Created, req'[h].data) )
        => /\ pc'[h] = "done" /\ outcome'[h] \in {"CONFLICT", "VALIDATION"}
           /\ users' = users /\ mailbox' = mailbox]_vars

\* The mean num / den rounded half-up to an integer.
HalfUp(num, den) == (2 * num + den) \div (2 * den)

\* The rating the specification gives a title on the current store.
RatingOf(title_id) ==
    LET rs == ReviewsOfTitles({title_id})
    IN  IF rs = {} THEN None ELSE <<HalfUp(sum(rs), Cardinality(rs))>>

\* C11: the rating returned when a title is read is absent if the title has no
\* reviews, and otherwise is the mean of the scores of the reviews now stored
\* for it, rounded half-up to an integer (scores 8 and 9 give 9).
C11_RatingIsHalfUpMean ==
    \A h \in Handlers :
        Finished(h, {"title_retrieve"}) /\ outcome[h] = "OK"
            => inst[h].rating = RatingOf(inst[h].id)

\* C12: in every reachable state of the identity store, under any interleaving
\* of sign-up, admin user create and update, and PATCH /users/me, no two
\* distinct identities share a username and no two share an email.
C12_UniqueUsernameAndEmail ==
    \A u, v \in users :
        u.id # v.id => u.username # v.username /\ u.email # v.email

\* Bodies that carry a score outside 1..10.
OutOfRange == {data \in ReviewData : "score" \in DOMAIN data /\ data.score \notin 1..10}

\* C13: every stored review has a score in 1..10; a body with a score outside
\* 1..10 fails field validation on a create and on an update alike; and a
\* create by an authenticated identity, or an update of an existing review by
\* an identity that may manage it, whose body fails validation is answered
\* VALIDATION at once and leaves the store unchanged.
C13_ScoreInRange ==
    /\ [](\A r \in reviews : r.score \in 1..10)
    /\ [](\A data \in ReviewData :
            "score" \in DOMAIN data =>
                /\ ReviewFieldsValid(data, TRUE) <=> data.score \in 1..10
                /\ data \in OutOfRange => ~ ReviewFieldsValid(data, FALSE))
    /\ [][\A h \in Handlers :
            ( /\ pc[h] = "idle" /\ pc'[h] # "idle"
              /\ req'[h].op \in {"review_create", "review_update"}
              /\ is_authenticated(req'[h].user)
              /\ req'[h].op = "review_update" => hist'[h].had /\ MayManage(h)'
              /\ ~ hist'[h].valid )
            => /\ pc'[h] = "done"
               /\ outcome'[h] = "VALIDATION"
               /\ store' = store]_vars

\* alice's update of her review was answered VALIDATION; the review still has
\* score 8 and text "good", and is the only one.
C13_Witness ==
    \E h \in Handlers :
        /\ Finished(h, {"review_update"}) /\ outcome[h] = "VALIDATION"
        /\ req[h].user.id = 3 /\ hist[h].had /\ hist[h].author
        /\ reviews = {[id |-> 1, title |-> 1, author |-> 3, score |-> 8, text |-> "good"]}

\* C14: a create of a review by an authenticated identity on a title that does
\* not exist is answered NOT_FOUND whatever its score and text, and no review
\* of a missing title is stored.
C14_MissingTitleIsNotFound ==
    /\ \A r \in reviews : review_fk(r)
    /\ \A h \in Handlers :
        ( /\ Finished(h, {"review_create"})
          /\ is_authenticated(req[h].user)
          /\ ~ hist[h].existed )
        => outcome[h] = "NOT_FOUND"

\* The username "me" in every letter case.
MeSpellings == {<<"m", "e">>, <<"M", "e">>, <<"m", "E">>, <<"M", "E">>}

\* C15: a sign-up whose username is "me" in any letter case, with any email, is
\* answered VALIDATION at once; it creates no identity, changes no confirmation
\* code and sends no mail.
C15_SignUpMeRejected ==
    /\ [](\A value \in MeSpellings : ~ validate_username_field(value))
    /\ [][\A h \in Handlers :
            ( /\ pc[h] = "idle" /\ pc'[h] # "idle"
              /\ req'[h].op = "signup"
              /\ req'[h].data.username \in MeSpellings )
            => /\ pc'[h] = "done"
               /\ outcome'[h] = "VALIDATION"
               /\ users' = users /\ mailbox' = mailbox
               /\ store' = store]_vars

\* A sign-up as "Me" was answered VALIDATION; the identities are those of the
\* site and nothing was mailed.
C15_Witness ==
    \E h \in Handlers :
        /\ Finished(h, {"signup"}) /\ outcome[h] = "VALIDATION"
        /\ req[h].data.username = <<"M", "e">>
        /\ users = SiteUsers /\ mailbox = {}

\* The checks of an update or delete of a review or comment, in the order the
\* specification gives them.
WriteOrder(method) ==
    IF method = "DELETE" THEN <<"class", "exists", "object", "delete">>
    ELSE <<"class", "exists", "object", "fields", "save">>

IsPrefix(s, t) == Len(s) <= Len(t) /\ SubSeq(t, 1, Len(s)) = s

\* C16: an update or delete of a review or comment evaluates its checks in the
\* order class-level permission, existence, object-level permission, validation,
\* write. A caller without credentials is denied by the class-level check alone,
\* whether or not the instance is there; an authenticated caller whose target is
\* not found under the parent named in the path is answered NOT_FOUND before any
\* object-level permission is consulted; and a caller that is denied has run no
\* validation and no write, and leaves the store unchanged.
C16_CheckOrder ==
    [][\A h \in Handlers :
        req'[h].op \in ObjectWrites =>
            /\ IsPrefix(checks'[h], WriteOrder(req'[h].method))
            /\ ~ is_authenticated(req'[h].user) =>
                  /\ outcome'[h] \in Denials
                  /\ checks'[h] = <<"class">>
            /\ (is_authenticated(req'[h].user) /\ ~ hist'[h].had) =>
                  /\ outcome'[h] = "NOT_FOUND"
                  /\ checks'[h] = <<"class", "exists">>
            /\ outcome'[h] \in Denials =>
                  /\ ~ Has(checks'[h], "fields")
                  /\ ~ Has(checks'[h], "save") /\ ~ Has(checks'[h], "delete")
                  /\ store' = store]_vars

\* alice, a plain user, asked to update a comment that is not under the review
\* named in the path: NOT_FOUND after the class-level and the existence check.
C16_Witness ==
    \E h \in Handlers :
        /\ Finished(h, {"comment_update"}) /\ outcome[h] = "NOT_FOUND"
        /\ req[h].user.id = 3 /\ ~ hist[h].had
        /\ checks[h] = <<"class", "exists">>

\* Every body a token exchange may carry.
TokenBodies == {r.data : r \in TokenRequest}

\* The bodies the token view accepts over the user table rows.
Accepted(rows) == {d \in TokenBodies : TokenOutcome(rows, d) = "OK"}

Privilege(u) == IF is_admin(u) THEN 2 ELSE IF is_moderator(u) THEN 1 ELSE 0

\* A write of the admin-only /users endpoints completes in this step, and its
\* caller is an admin in the store at this step.
AdminWrite ==
    \E h \in Handlers :
        /\ pc[h] \in {"users_insert", "users_save"} /\ pc'[h] = "done"
        /\ \E c \in users : c.id = req[h].user.id /\ is_admin(c)

\* C18: no privilege escalation. The role and is_superuser of a stored identity
\* rise, and an identity with more than the role user comes into the store,
\* only in a step that completes a write of the admin-only /users endpoints by
\* a caller that is admin at that step; no request of an identity's own
\* (sign-up, token exchange, PATCH /users/me) makes it moderator or admin.
C18_NoPrivilegeEscalation ==
    [][ /\ \A u \in users, v \in users' :
            (v.id = u.id /\ Privilege(v) > Privilege(u)) => AdminWrite
        /\ \A v \in users' :
            ((\A u \in users : u.id # v.id) /\ Privilege(v) > 0) => AdminWrite ]_vars

====
